---- MODULE Spec2Model ----
(***************************************************************************)
(* The PetalDocuments contract (src/Rel/src/lib.rs): a document-signing    *)
(* ledger kept in seven persistent tables.  Every public entry point is    *)
(* one atomic step: the host commits the writes of a call that returns and *)
(* discards the writes of a call that panics.                              *)
(***************************************************************************)
EXTENDS Integers, Sequences, FiniteSets, TLC

\* ------------------------------------------------------------------ bounds
MaxToken == 2
NumAddress == 2
NumString == 2
MaxTime == 1
MaxSigners == 2

Token == 1..MaxToken
Address == 1..NumAddress
String == 1..NumString
Time == 0..MaxTime

\* --------------------------------------------------------- program values
\* enum Error (#[repr(u32)])
TokenNotMinted == 1
DocumentSigningsIsEmpty == 2
NotASigner == 3
AlreadySigned == 4
SignerDoesNotExist == 5
DocumentHashesIsEmpty == 6
DocumentHashesDoesNotMatchTokenHash == 7
HashNotFound == 8
DeadlinesIsEmpty == 9
DeadlinePassed == 10
DeadlineNotFound == 11
SignatureExpired == 12
TokenAlreadyMinted == 13
TokenDoesNotExist == 14
SignersListEmpty == 15
\* outcomes that carry no contract error code
Ok == 0
HostAuthError == 16
AlreadyInitialized == 17

\* enum SignatureStatus
SignatureStatus == {"NotASigner", "Rejected", "Signed", "Waiting"}

\* soroban Map: a finite function; Map::new is the empty function
EmptyMap == << >>
MapSet(m, k, v) == [x \in (DOMAIN m) \cup {k} |-> IF x = k THEN v ELSE m[x]]
MapHas(m, k) == k \in DOMAIN m
MapIsEmpty(m) == DOMAIN m = {}

\* soroban Vec<Address> arguments of safe_mint, up to MaxSigners long
SignerVecs == UNION {[1..n -> Address] : n \in 0..MaxSigners}

\* the documents offered to safe_mint: recipient, metadata URI, content hash
\* and signing deadline of each
Documents ==
    { [to |-> 1, meta_uri |-> 1, document_hash |-> 1, deadline |-> 0],
      [to |-> 2, meta_uri |-> 2, document_hash |-> 2, deadline |-> 1] }

VARIABLES OWNERS, URIS, T2DHASH, DEADLINES, DOCSIGN, NONCES, ADMIN, now, last

vars == <<OWNERS, URIS, T2DHASH, DEADLINES, DOCSIGN, NONCES, ADMIN, now, last>>

\* the persistent store as one value
Store ==
    [OWNERS |-> OWNERS, URIS |-> URIS, T2DHASH |-> T2DHASH,
     DEADLINES |-> DEADLINES, DOCSIGN |-> DOCSIGN, NONCES |-> NONCES,
     ADMIN |-> ADMIN]

\* the host commits the store a call leaves behind
Persist(st) ==
    /\ OWNERS' = st.OWNERS
    /\ URIS' = st.URIS
    /\ T2DHASH' = st.T2DHASH
    /\ DEADLINES' = st.DEADLINES
    /\ DOCSIGN' = st.DOCSIGN
    /\ NONCES' = st.NONCES
    /\ ADMIN' = st.ADMIN

\* ---------------------------------------------------------------- helpers
exists(token_id, owners) == MapHas(owners, token_id)

require_minted(token_id) == exists(token_id, OWNERS)

\* variant of ledger_timestamp: a stale reading, one tick behind
ledger_timestamp_stale == IF now = 0 THEN now ELSE now - 1

\* e.ledger().timestamp(): the same value at every read within one call
ledger_timestamp == now

\* admin.rs: ADMIN is an optional singleton
has_administrator == ADMIN # << >>
write_administrator(admin) == <<admin>>

\* ------------------------------------------------------------ sign_document
\* variant of signer_status_err: an unknown signer is reported as NotASigner
signer_status_err_unknown(signer, token_id) ==
    IF ~MapHas(DOCSIGN, token_id) THEN DocumentSigningsIsEmpty
    ELSE IF ~MapHas(DOCSIGN[token_id], signer) THEN NotASigner
    ELSE IF DOCSIGN[token_id][signer] = "NotASigner" THEN NotASigner
    ELSE IF DOCSIGN[token_id][signer] = "Signed" THEN AlreadySigned
    ELSE Ok

\* variant of signer_status_err: no Signed guard at the lookup
signer_status_err_nosigned(signer, token_id) ==
    IF ~MapHas(DOCSIGN, token_id) THEN DocumentSigningsIsEmpty
    ELSE IF ~MapHas(DOCSIGN[token_id], signer) THEN SignerDoesNotExist
    ELSE IF DOCSIGN[token_id][signer] = "NotASigner" THEN NotASigner
    ELSE Ok

\* the signer lookup in DOCSIGN[token_id] and the two status guards
signer_status_err(signer, token_id) ==
    IF ~MapHas(DOCSIGN, token_id) THEN DocumentSigningsIsEmpty
    ELSE IF ~MapHas(DOCSIGN[token_id], signer) THEN SignerDoesNotExist
    ELSE IF DOCSIGN[token_id][signer] = "NotASigner" THEN NotASigner
    ELSE IF DOCSIGN[token_id][signer] = "Signed" THEN AlreadySigned
    ELSE Ok

\* variant of matched_hash_err: the hash is looked up but never compared
matched_hash_err_nocompare(document_hash, token_id) ==
    IF MapIsEmpty(T2DHASH) THEN DocumentHashesIsEmpty
    ELSE IF ~MapHas(T2DHASH, token_id) THEN HashNotFound
    ELSE Ok

\* the stored hash against the argument
matched_hash_err(document_hash, token_id) ==
    IF MapIsEmpty(T2DHASH) THEN DocumentHashesIsEmpty
    ELSE IF ~MapHas(T2DHASH, token_id) THEN HashNotFound
    ELSE IF T2DHASH[token_id] # document_hash
         THEN DocumentHashesDoesNotMatchTokenHash
    ELSE Ok

\* variant of deadline_err: the deadline itself is already too late
deadline_err_exclusive(token_id) ==
    IF MapIsEmpty(DEADLINES) THEN DeadlinesIsEmpty
    ELSE IF ~MapHas(DEADLINES, token_id) THEN DeadlineNotFound
    ELSE IF ledger_timestamp >= DEADLINES[token_id] THEN DeadlinePassed
    ELSE Ok

\* the first deadline check
deadline_err(token_id) ==
    IF MapIsEmpty(DEADLINES) THEN DeadlinesIsEmpty
    ELSE IF ~MapHas(DEADLINES, token_id) THEN DeadlineNotFound
    ELSE IF ledger_timestamp > DEADLINES[token_id] THEN DeadlinePassed
    ELSE Ok

\* variant of verify_signer: the Waiting guard only, no require_auth
verify_signer_noauth(signer, token_id, authed) ==
    IF DOCSIGN[token_id][signer] # "Waiting" THEN AlreadySigned ELSE Ok

\* variant of verify_signer: authentication only, no Waiting guard
verify_signer_authonly(signer, token_id, authed) ==
    IF ~authed THEN HostAuthError ELSE Ok

\* require_auth of the signer (the host's answer is the input authed), then
\* the stored status must be Waiting
verify_signer(signer, token_id, authed) ==
    IF ~authed THEN HostAuthError
    ELSE IF DOCSIGN[token_id][signer] # "Waiting" THEN AlreadySigned
    ELSE Ok

\* variant of signature_expired_err: the deadline itself is already expired
signature_expired_err_inclusive(token_id) ==
    IF ledger_timestamp >= DEADLINES[token_id] THEN SignatureExpired ELSE Ok

\* the second deadline check
signature_expired_err(token_id) ==
    IF ledger_timestamp > DEADLINES[token_id] THEN SignatureExpired ELSE Ok

\* variant of sign_document_err: the hash is checked before the signer lookup
sign_document_err_hashfirst(document_hash, signer, status, token_id, authed) ==
    IF ~require_minted(token_id) THEN TokenNotMinted
    ELSE IF MapIsEmpty(DOCSIGN) THEN DocumentSigningsIsEmpty
    ELSE IF matched_hash_err(document_hash, token_id) # Ok
         THEN matched_hash_err(document_hash, token_id)
    ELSE IF signer_status_err(signer, token_id) # Ok
         THEN signer_status_err(signer, token_id)
    ELSE IF deadline_err(token_id) # Ok THEN deadline_err(token_id)
    ELSE IF verify_signer(signer, token_id, authed) # Ok
         THEN verify_signer(signer, token_id, authed)
    ELSE signature_expired_err(token_id)

\* the checks of sign_document in program order; Ok when the call goes on to
\* its writes
sign_document_err(document_hash, signer, status, token_id, authed) ==
    IF ~require_minted(token_id) THEN TokenNotMinted
    ELSE IF MapIsEmpty(DOCSIGN) THEN DocumentSigningsIsEmpty
    ELSE IF signer_status_err(signer, token_id) # Ok
         THEN signer_status_err(signer, token_id)
    ELSE IF matched_hash_err(document_hash, token_id) # Ok
         THEN matched_hash_err(document_hash, token_id)
    ELSE IF deadline_err(token_id) # Ok THEN deadline_err(token_id)
    ELSE IF verify_signer(signer, token_id, authed) # Ok
         THEN verify_signer(signer, token_id, authed)
    ELSE signature_expired_err(token_id)

\* the local map signature_nonces after its update (a u32, far from its
\* upper end within the call counts explored)
signature_nonces(signer) ==
    LET last_nonce == IF MapHas(NONCES, signer) THEN NONCES[signer] ELSE 0
    IN  IF MapIsEmpty(NONCES)
        THEN MapSet(NONCES, signer, last_nonce)
        ELSE MapSet(NONCES, signer, last_nonce + 1)

\* variant of sign_document_NONCES: the updated nonce is stored, under the
\* key of another address
sign_document_NONCES_otherkey(signer) ==
    signature_nonces((signer % NumAddress) + 1)

\* signature_nonces is never handed to storage().set: the NONCES table a
\* successful call leaves behind is the one it read
sign_document_NONCES(signer) == NONCES

\* variant of sign_document_DOCSIGN: the signer is set to Signed whatever the
\* status argument
sign_document_DOCSIGN_signed(signer, status, token_id) ==
    MapSet(DOCSIGN, token_id, MapSet(DOCSIGN[token_id], signer, "Signed"))

\* variant of sign_document_DOCSIGN: only the signed token's map is kept
sign_document_DOCSIGN_single(signer, status, token_id) ==
    MapSet(EmptyMap, token_id, MapSet(DOCSIGN[token_id], signer, status))

\* variant of sign_document_DOCSIGN: the status is set on every signer of the
\* token
sign_document_DOCSIGN_all(signer, status, token_id) ==
    MapSet(DOCSIGN, token_id, [s \in DOMAIN DOCSIGN[token_id] |-> status])

\* the DOCSIGN table a successful call persists and returns
sign_document_DOCSIGN(signer, status, token_id) ==
    LET inner_signings == MapSet(DOCSIGN[token_id], signer, status)
    IN  MapSet(DOCSIGN, token_id, inner_signings)

\* the map a successful call returns: the local doc_signings after its update
sign_document_return(signer, status, token_id) ==
    LET inner_signings == MapSet(DOCSIGN[token_id], signer, status)
        doc_signings == MapSet(DOCSIGN, token_id, inner_signings)
    IN  doc_signings

\* the writes sign_document has issued when it returns or panics: every
\* check precedes the one storage set
sign_document_written(document_hash, signer, status, token_id, authed) ==
    IF sign_document_err(document_hash, signer, status, token_id, authed) = Ok
    THEN [Store EXCEPT !.DOCSIGN = sign_document_DOCSIGN(signer, status, token_id)]
    ELSE Store

\* variant of sign_document_store: DOCSIGN is stored as soon as the signer
\* lookup has passed, and kept whatever the later checks say
sign_document_store_eager(document_hash, signer, status, token_id, authed) ==
    IF /\ require_minted(token_id)
       /\ ~MapIsEmpty(DOCSIGN)
       /\ signer_status_err(signer, token_id) = Ok
    THEN [Store EXCEPT !.DOCSIGN = sign_document_DOCSIGN(signer, status, token_id)]
    ELSE Store

\* the store after the call: a panic discards every write
sign_document_store(document_hash, signer, status, token_id, authed) ==
    IF sign_document_err(document_hash, signer, status, token_id, authed) = Ok
    THEN [Store EXCEPT !.DOCSIGN = sign_document_DOCSIGN(signer, status, token_id),
                       !.NONCES = sign_document_NONCES(signer)]
    ELSE Store

sign_document(document_hash, signer, status, token_id, authed) ==
    /\ last' = [op |-> "sign_document",
                err |-> sign_document_err(document_hash, signer, status,
                                          token_id, authed)]
    /\ Persist(sign_document_store(document_hash, signer, status, token_id, authed))
    /\ UNCHANGED now

\* ---------------------------------------------------------------- safe_mint
\* variant of mint_err: no uniqueness check
mint_err_nocheck(token_id) == Ok

\* mint's uniqueness check
mint_err(token_id) ==
    IF exists(token_id, OWNERS) THEN TokenAlreadyMinted ELSE Ok

\* variant of mint_OWNERS: the owners map is started afresh
mint_OWNERS_fresh(token_id, to) == MapSet(EmptyMap, token_id, to)

\* the OWNERS table mint writes
mint_OWNERS(token_id, to) == MapSet(OWNERS, token_id, to)

\* set_token_uri's existence check against the owners it reads
set_token_uri_err(token_id, owners) ==
    IF ~exists(token_id, owners) THEN TokenDoesNotExist ELSE Ok

\* variant of set_token_uri_URIS: the URI is never stored
set_token_uri_URIS_skip(token_id, token_uri) == URIS

\* the URIS table set_token_uri writes
set_token_uri_URIS(token_id, token_uri) == MapSet(URIS, token_id, token_uri)

\* variant of inner_doc_signings: a repeated address is marked Rejected
RECURSIVE inner_doc_signings_dupmark(_, _)
inner_doc_signings_dupmark(m, signers) ==
    IF signers = << >> THEN m
    ELSE IF MapHas(m, Head(signers))
    THEN inner_doc_signings_dupmark(MapSet(m, Head(signers), "Rejected"),
                                    Tail(signers))
    ELSE inner_doc_signings_dupmark(MapSet(m, Head(signers), "Waiting"),
                                    Tail(signers))

\* variant of inner_doc_signings: only the first address is enrolled
inner_doc_signings_headonly(m, signers) ==
    IF signers = << >> THEN m ELSE MapSet(m, Head(signers), "Waiting")

\* every address of the list is set to Waiting, in list order
RECURSIVE inner_doc_signings(_, _)
inner_doc_signings(m, signers) ==
    IF signers = << >> THEN m
    ELSE inner_doc_signings(MapSet(m, Head(signers), "Waiting"), Tail(signers))

\* variant of safe_mint_err: no check of the signers list
safe_mint_err_noempty(to, token_id, signers) ==
    IF mint_err(token_id) # Ok THEN mint_err(token_id)
    ELSE set_token_uri_err(token_id, mint_OWNERS(token_id, to))

\* the checks of safe_mint in program order
safe_mint_err(to, token_id, signers) ==
    IF Len(signers) = 0 THEN SignersListEmpty
    ELSE IF mint_err(token_id) # Ok THEN mint_err(token_id)
    ELSE set_token_uri_err(token_id, mint_OWNERS(token_id, to))

\* the writes safe_mint has issued when it returns or panics: mint stores
\* OWNERS before set_token_uri makes its check
safe_mint_written(to, token_id, meta_uri, signers, document_hash, deadline) ==
    IF Len(signers) = 0 THEN Store
    ELSE IF mint_err(token_id) # Ok THEN Store
    ELSE IF set_token_uri_err(token_id, mint_OWNERS(token_id, to)) # Ok
         THEN [Store EXCEPT !.OWNERS = mint_OWNERS(token_id, to)]
    ELSE [Store EXCEPT
            !.OWNERS = mint_OWNERS(token_id, to),
            !.URIS = set_token_uri_URIS(token_id, meta_uri),
            !.T2DHASH = MapSet(T2DHASH, token_id, document_hash),
            !.DEADLINES = MapSet(DEADLINES, token_id, deadline),
            !.DOCSIGN = MapSet(DOCSIGN, token_id,
                               inner_doc_signings(EmptyMap, signers))]

\* variant of safe_mint_store: the document hash is never stored
safe_mint_store_nohash(to, token_id, meta_uri, signers, document_hash, deadline) ==
    IF safe_mint_err(to, token_id, signers) = Ok
    THEN [Store EXCEPT
            !.OWNERS = mint_OWNERS(token_id, to),
            !.URIS = set_token_uri_URIS(token_id, meta_uri),
            !.DEADLINES = MapSet(DEADLINES, token_id, deadline),
            !.DOCSIGN = MapSet(DOCSIGN, token_id,
                               inner_doc_signings(EmptyMap, signers))]
    ELSE Store

\* the store after the call: a panic discards every write
safe_mint_store(to, token_id, meta_uri, signers, document_hash, deadline) ==
    IF safe_mint_err(to, token_id, signers) = Ok
    THEN [Store EXCEPT
            !.OWNERS = mint_OWNERS(token_id, to),
            !.URIS = set_token_uri_URIS(token_id, meta_uri),
            !.T2DHASH = MapSet(T2DHASH, token_id, document_hash),
            !.DEADLINES = MapSet(DEADLINES, token_id, deadline),
            !.DOCSIGN = MapSet(DOCSIGN, token_id,
                               inner_doc_signings(EmptyMap, signers))]
    ELSE Store

safe_mint(to, token_id, meta_uri, signers, document_hash, deadline) ==
    /\ last' = [op |-> "safe_mint", err |-> safe_mint_err(to, token_id, signers)]
    /\ Persist(safe_mint_store(to, token_id, meta_uri, signers, document_hash,
                               deadline))
    /\ UNCHANGED now

\* --------------------------------------------------------------------- init
\* variant of init_err: no guard on an existing administrator
init_err_nocheck == Ok

\* init's guard
init_err == IF has_administrator THEN AlreadyInitialized ELSE Ok

init_store(admin, token_id) ==
    IF init_err = Ok
    THEN [Store EXCEPT !.ADMIN = write_administrator(admin)]
    ELSE Store

init(admin, token_id) ==
    /\ last' = [op |-> "init", err |-> init_err]
    /\ Persist(init_store(admin, token_id))
    /\ UNCHANGED now

\* ------------------------------------------------------------------ getters
get_nonces(nonces, user) == IF MapHas(nonces, user) THEN nonces[user] ELSE 0

get_document(doc_signings, doc_id) ==
    IF MapHas(doc_signings, doc_id) THEN doc_signings[doc_id] ELSE EmptyMap

\* a stored table is read with unwrap_or(Map::new): a table that was never
\* stored reads as the empty map, which is how the variables hold it
get_owners == OWNERS

get_token_uris == URIS

get_td_hashes == T2DHASH

get_deadlines == DEADLINES

get_documents == DOCSIGN

\* the host's failure of unwrap() on None
UnwrapOnNone == 18

\* variant of get_token_uri_err: an absent doc_id is no failure
get_token_uri_err_lenient(doc_id) == Ok

\* get_token_uri unwraps the lookup of doc_id in URIS
get_token_uri_err(doc_id) ==
    IF MapHas(URIS, doc_id) THEN Ok ELSE UnwrapOnNone

\* the getters as calls: none of them writes to storage
get_nonces_call(user) ==
    /\ last' = [op |-> "get_nonces", err |-> Ok]
    /\ Persist(Store)
    /\ UNCHANGED now

get_owners_call ==
    /\ last' = [op |-> "get_owners", err |-> Ok]
    /\ Persist(Store)
    /\ UNCHANGED now

get_token_uris_call ==
    /\ last' = [op |-> "get_token_uris", err |-> Ok]
    /\ Persist(Store)
    /\ UNCHANGED now

get_token_uri_call(doc_id) ==
    /\ last' = [op |-> "get_token_uri", err |-> get_token_uri_err(doc_id)]
    /\ Persist(Store)
    /\ UNCHANGED now

get_td_hashes_call ==
    /\ last' = [op |-> "get_td_hashes", err |-> Ok]
    /\ Persist(Store)
    /\ UNCHANGED now

get_deadlines_call ==
    /\ last' = [op |-> "get_deadlines", err |-> Ok]
    /\ Persist(Store)
    /\ UNCHANGED now

get_documents_call ==
    /\ last' = [op |-> "get_documents", err |-> Ok]
    /\ Persist(Store)
    /\ UNCHANGED now

get_document_call(doc_id) ==
    /\ last' = [op |-> "get_document", err |-> Ok]
    /\ Persist(Store)
    /\ UNCHANGED now

\* ------------------------------------------------------------ the host clock
\* the ledger timestamp never decreases between calls
Tick ==
    /\ now < MaxTime
    /\ now' = now + 1
    /\ last' = [op |-> "tick", err |-> Ok]
    /\ Persist(Store)

\* ------------------------------------------------------------ specification
Init ==
    /\ OWNERS = EmptyMap
    /\ URIS = EmptyMap
    /\ T2DHASH = EmptyMap
    /\ DEADLINES = EmptyMap
    /\ DOCSIGN = EmptyMap
    /\ NONCES = EmptyMap
    /\ ADMIN = << >>
    /\ now = 0
    /\ last = [op |-> "deploy", err |-> Ok]

Next ==
    \/ \E admin \in Address, token_id \in Token : init(admin, token_id)
    \/ \E d \in Documents, token_id \in Token, signers \in SignerVecs :
          safe_mint(d.to, token_id, d.meta_uri, signers, d.document_hash,
                    d.deadline)
    \/ \E document_hash \in String, signer \in Address,
          status \in SignatureStatus, token_id \in Token, authed \in BOOLEAN :
          sign_document(document_hash, signer, status, token_id, authed)
    \/ Tick

Spec == Init /\ [][Next]_vars

\* the contract with its read-only getters among the calls
NextGetters ==
    \/ \E admin \in Address, token_id \in Token : init(admin, token_id)
    \/ \E d \in Documents, token_id \in Token, signers \in SignerVecs :
          safe_mint(d.to, token_id, d.meta_uri, signers, d.document_hash,
                    d.deadline)
    \/ \E document_hash \in String, signer \in Address,
          status \in SignatureStatus, token_id \in Token, authed \in BOOLEAN :
          sign_document(document_hash, signer, status, token_id, authed)
    \/ Tick
    \/ \E user \in Address : get_nonces_call(user)
    \/ get_owners_call
    \/ get_token_uris_call
    \/ \E doc_id \in Token : get_token_uri_call(doc_id)
    \/ get_td_hashes_call
    \/ get_deadlines_call
    \/ get_documents_call
    \/ \E doc_id \in Token : get_document_call(doc_id)

SpecGetters == Init /\ [][NextGetters]_vars

\* ------------------------------------------------------------------ inputs
\* every call a client can make in the current state
SignCalls ==
    [document_hash : String, signer : Address, status : SignatureStatus,
     token_id : Token, authed : BOOLEAN]

MintCalls == [doc : Documents, token_id : Token, signers : SignerVecs]

SignErr(c) ==
    sign_document_err(c.document_hash, c.signer, c.status, c.token_id, c.authed)

SignStore(c) ==
    sign_document_store(c.document_hash, c.signer, c.status, c.token_id, c.authed)

MintErr(c) == safe_mint_err(c.doc.to, c.token_id, c.signers)

MintStore(c) ==
    safe_mint_store(c.doc.to, c.token_id, c.doc.meta_uri, c.signers,
                    c.doc.document_hash, c.doc.deadline)

Enrolled(token_id, signer) ==
    MapHas(DOCSIGN, token_id) /\ MapHas(DOCSIGN[token_id], signer)

StatusIs(token_id, signer, status) ==
    Enrolled(token_id, signer) /\ DOCSIGN[token_id][signer] = status

\* ------------------------------------------------------------------- claims
\* C1: in every reachable state the five per-token tables OWNERS, URIS,
\* T2DHASH, DEADLINES and DOCSIGN have the same keys, and every safe_mint
\* that succeeds adds its token_id to all five in that one step.
C1_FiveTablesTogether ==
    /\ DOMAIN URIS = DOMAIN OWNERS
    /\ DOMAIN T2DHASH = DOMAIN OWNERS
    /\ DOMAIN DEADLINES = DOMAIN OWNERS
    /\ DOMAIN DOCSIGN = DOMAIN OWNERS
    /\ \A c \in MintCalls :
          MintErr(c) = Ok =>
            /\ c.token_id \notin DOMAIN OWNERS
            /\ DOMAIN MintStore(c).OWNERS = DOMAIN OWNERS \cup {c.token_id}
            /\ DOMAIN MintStore(c).URIS = DOMAIN URIS \cup {c.token_id}
            /\ DOMAIN MintStore(c).T2DHASH = DOMAIN T2DHASH \cup {c.token_id}
            /\ DOMAIN MintStore(c).DEADLINES = DOMAIN DEADLINES \cup {c.token_id}
            /\ DOMAIN MintStore(c).DOCSIGN = DOMAIN DOCSIGN \cup {c.token_id}

\* C1 witness: both tokens minted, the last call a successful safe_mint,
\* after an earlier sign_document changed a status.
C1_Witness ==
    /\ last = [op |-> "safe_mint", err |-> Ok]
    /\ DOMAIN OWNERS = Token
    /\ \E t \in Token, s \in Address : StatusIs(t, s, "Signed")

\* C2 (as claimed): every status stored in DOCSIGN is Waiting, Signed or
\* Rejected; NotASigner is never stored.
C2_NotASignerNeverStored ==
    \A t \in DOMAIN DOCSIGN : \A s \in DOMAIN DOCSIGN[t] :
        DOCSIGN[t][s] \in {"Waiting", "Signed", "Rejected"}

\* C3 (as claimed): a successful sign_document leaves get_nonces(signer)
\* strictly greater than before, or at 0 when the signer had no nonce and
\* NONCES was empty; and when the signer has already completed a sign on
\* another token, get_nonces(signer) is at least 1 afterwards.
C3_NonceAdvances ==
    \A c \in SignCalls :
        SignErr(c) = Ok =>
          LET before == get_nonces(NONCES, c.signer)
              after == get_nonces(SignStore(c).NONCES, c.signer)
          IN  /\ IF ~MapHas(NONCES, c.signer) /\ MapIsEmpty(NONCES)
                 THEN after = 0
                 ELSE after > before
              /\ (\E t \in Token \ {c.token_id} :
                     /\ Enrolled(t, c.signer)
                     /\ DOCSIGN[t][c.signer] \in {"Signed", "Rejected"})
                 => after >= 1

\* C4: get_nonces of a signer never decreases, and it changes only in a step
\* that is a successful sign_document by that signer; init, safe_mint and
\* aborted calls leave NONCES as it was.
C4_NonceOnlyBySign ==
    [][ /\ \A s \in Address :
              /\ get_nonces(NONCES', s) >= get_nonces(NONCES, s)
              /\ get_nonces(NONCES', s) # get_nonces(NONCES, s) =>
                    \E c \in SignCalls :
                        /\ c.signer = s
                        /\ SignErr(c) = Ok
                        /\ last' = [op |-> "sign_document", err |-> Ok]
                        /\ Store' = SignStore(c)
        /\ (last'.op # "sign_document" \/ last'.err # Ok) => NONCES' = NONCES
      ]_vars

\* C4 witness: a sign_document has succeeded and another has aborted since.
C4_Witness ==
    /\ last.op = "sign_document" /\ last.err # Ok
    /\ \E t \in Token, s \in Address : StatusIs(t, s, "Signed")

\* C5 (as claimed): safe_mint of a token_id already in OWNERS aborts with
\* TokenAlreadyMinted and leaves the store unchanged.
C5_RemintAlwaysTokenAlreadyMinted ==
    \A c \in MintCalls :
        c.token_id \in DOMAIN OWNERS =>
            MintErr(c) = TokenAlreadyMinted /\ MintStore(c) = Store

\* C5 (amended): safe_mint of a token_id already in OWNERS never succeeds
\* and leaves the store unchanged; it aborts with TokenAlreadyMinted when
\* its signers list is non-empty and with SignersListEmpty when it is empty.
C5_RemintAborts ==
    \A c \in MintCalls :
        c.token_id \in DOMAIN OWNERS =>
            /\ MintErr(c) = IF c.signers = << >> THEN SignersListEmpty
                            ELSE TokenAlreadyMinted
            /\ MintStore(c) = Store

\* C5 witness: a safe_mint of a minted token_id has just been refused.
C5_Witness ==
    /\ last = [op |-> "safe_mint", err |-> TokenAlreadyMinted]
    /\ DOMAIN OWNERS # {}

\* C6: a sign_document made when the ledger timestamp is past the token's
\* deadline leaves DOCSIGN and NONCES as they were, whatever its arguments.
C6_PastDeadlineNoWrite ==
    \A c \in SignCalls :
        (MapHas(DEADLINES, c.token_id) /\ now > DEADLINES[c.token_id]) =>
            /\ SignStore(c).DOCSIGN = DOCSIGN
            /\ SignStore(c).NONCES = NONCES

\* C6 witness: a sign_document has just been refused with DeadlinePassed.
C6_Witness ==
    /\ last = [op |-> "sign_document", err |-> DeadlinePassed]
    /\ \E t \in DOMAIN DEADLINES : now > DEADLINES[t]

\* C7: a sign_document whose document_hash differs from T2DHASH[token_id]
\* leaves the whole store as it was; for a minted token and a signer enrolled
\* as Waiting it aborts with DocumentHashesDoesNotMatchTokenHash.
C7_WrongHashNoWrite ==
    \A c \in SignCalls :
        (~MapHas(T2DHASH, c.token_id) \/ T2DHASH[c.token_id] # c.document_hash) =>
            /\ SignStore(c) = Store
            /\ (require_minted(c.token_id)
                /\ StatusIs(c.token_id, c.signer, "Waiting"))
               => SignErr(c) = DocumentHashesDoesNotMatchTokenHash

\* C7 witness: a sign_document has just been refused for its hash.
C7_Witness ==
    last = [op |-> "sign_document", err |-> DocumentHashesDoesNotMatchTokenHash]

\* C8: a sign_document naming a signer that is no key of DOCSIGN[token_id]
\* leaves the whole store as it was; for a minted token it aborts with
\* SignerDoesNotExist.
C8_UnknownSignerNoWrite ==
    \A c \in SignCalls :
        ~Enrolled(c.token_id, c.signer) =>
            /\ SignStore(c) = Store
            /\ require_minted(c.token_id) => SignErr(c) = SignerDoesNotExist

\* C8 witness: a sign_document has just been refused with SignerDoesNotExist
\* on a token whose other signer is enrolled.
C8_Witness ==
    /\ last = [op |-> "sign_document", err |-> SignerDoesNotExist]
    /\ \E t \in DOMAIN DOCSIGN : DOMAIN DOCSIGN[t] # Address

\* C9: a (token_id, signer) status that is Signed is Signed in every later
\* state, and every sign_document by that signer on that token aborts with
\* AlreadySigned.
C9_SignedIsFinal ==
    /\ [](\A c \in SignCalls :
            StatusIs(c.token_id, c.signer, "Signed") => SignErr(c) = AlreadySigned)
    /\ [][\A t \in Token, s \in Address :
            StatusIs(t, s, "Signed") => StatusIs(t, s, "Signed")']_vars

\* C9 witness: a signer whose status is Signed has just been refused with
\* AlreadySigned.
C9_Witness ==
    /\ last = [op |-> "sign_document", err |-> AlreadySigned]
    /\ \E t \in Token, s \in Address : StatusIs(t, s, "Signed")
    /\ ~ \E t \in Token, s \in Address : StatusIs(t, s, "Rejected")
    /\ ~ \E t \in Token, s \in Address : StatusIs(t, s, "NotASigner")

\* C10: a (token_id, signer) status that is Rejected is Rejected in every
\* later state, and no sign_document by that signer on that token succeeds.
C10_RejectedIsFinal ==
    /\ [](\A c \in SignCalls :
            StatusIs(c.token_id, c.signer, "Rejected") => SignErr(c) # Ok)
    /\ [][\A t \in Token, s \in Address :
            StatusIs(t, s, "Rejected") => StatusIs(t, s, "Rejected")']_vars

\* C10 witness: a signer whose status is Rejected has just been refused, no
\* status being Signed.
C10_Witness ==
    /\ last = [op |-> "sign_document", err |-> AlreadySigned]
    /\ \E t \in Token, s \in Address : StatusIs(t, s, "Rejected")
    /\ ~ \E t \in Token, s \in Address : StatusIs(t, s, "Signed")

\* the set of addresses of a signers list
Addresses(signers) == {signers[i] : i \in 1..Len(signers)}

\* C11: init succeeds only when no administrator is stored; with one stored,
\* init with any admin aborts and leaves the store as it was, and no step of
\* any operation changes a stored administrator.
C11_InitOnce ==
    /\ [](\A admin \in Address, token_id \in Token :
            /\ init_err = Ok <=> ADMIN = << >>
            /\ ADMIN # << >> => init_store(admin, token_id) = Store
            /\ ADMIN = << >> => init_store(admin, token_id).ADMIN = <<admin>>)
    /\ [][ADMIN # << >> => ADMIN' = ADMIN]_vars

\* C11 witness: an init has just been refused, an administrator being
\* stored and a token minted.
C11_Witness ==
    /\ last = [op |-> "init", err |-> AlreadyInitialized]
    /\ ADMIN # << >>
    /\ DOMAIN OWNERS # {}

\* C12: safe_mint with an empty signers list aborts with SignersListEmpty
\* and leaves the store as it was, also when its token_id is already minted;
\* every inner map of DOCSIGN is non-empty.
C12_EmptySignersRefused ==
    /\ \A c \in MintCalls :
          c.signers = << >> =>
              MintErr(c) = SignersListEmpty /\ MintStore(c) = Store
    /\ \A t \in DOMAIN DOCSIGN : DOMAIN DOCSIGN[t] # {}

\* C12 witness: a safe_mint has just been refused with SignersListEmpty
\* while every token_id is already minted.
C12_Witness ==
    /\ last = [op |-> "safe_mint", err |-> SignersListEmpty]
    /\ DOMAIN OWNERS = Token

\* C13: a successful safe_mint leaves every address of its signers list
\* Waiting; a sign_document with status Signed by an authenticated signer
\* enrolled as Waiting, with the matching hash and now <= deadline, succeeds,
\* after which get_document maps that signer to Signed and every other signer
\* to the status it had (Waiting right after the mint), and get_nonces of the
\* signer is 0 when NONCES was empty.
C13_MintThenSign ==
    /\ \A c \in MintCalls :
          MintErr(c) = Ok =>
              \A s \in Addresses(c.signers) :
                  get_document(MintStore(c).DOCSIGN, c.token_id)[s] = "Waiting"
    /\ \A c \in SignCalls :
          ( /\ c.status = "Signed"
            /\ c.authed
            /\ StatusIs(c.token_id, c.signer, "Waiting")
            /\ T2DHASH[c.token_id] = c.document_hash
            /\ now <= DEADLINES[c.token_id] ) =>
              LET before == get_document(DOCSIGN, c.token_id)
                  after == get_document(SignStore(c).DOCSIGN, c.token_id)
              IN  /\ SignErr(c) = Ok
                  /\ DOMAIN after = DOMAIN before
                  /\ after[c.signer] = "Signed"
                  /\ \A o \in DOMAIN before \ {c.signer} : after[o] = before[o]
                  /\ MapIsEmpty(NONCES) =>
                        get_nonces(SignStore(c).NONCES, c.signer) = 0

\* C13 witness: a sign_document has just succeeded on a token with two
\* signers, one now Signed and the other still Waiting, and nothing else
\* has been signed.
C13_Witness ==
    /\ last = [op |-> "sign_document", err |-> Ok]
    /\ \E t \in Token, s \in Address, o \in Address :
          /\ StatusIs(t, s, "Signed")
          /\ StatusIs(t, o, "Waiting")
          /\ \A u \in DOMAIN DOCSIGN \ {t} : \A x \in DOMAIN DOCSIGN[u] :
                DOCSIGN[u][x] = "Waiting"

\* C14: the deadline comparison is inclusive: for an authenticated signer
\* enrolled as Waiting, with the matching hash, sign_document succeeds when
\* the ledger timestamp equals DEADLINES[token_id], and aborts with
\* DeadlinePassed, get_document(token_id) unchanged, when it is greater.
C14_DeadlineInclusive ==
    \A c \in SignCalls :
        ( /\ c.authed
          /\ StatusIs(c.token_id, c.signer, "Waiting")
          /\ T2DHASH[c.token_id] = c.document_hash ) =>
            /\ ledger_timestamp = DEADLINES[c.token_id] => SignErr(c) = Ok
            /\ ledger_timestamp > DEADLINES[c.token_id] =>
                  /\ SignErr(c) = DeadlinePassed
                  /\ get_document(SignStore(c).DOCSIGN, c.token_id)
                        = get_document(DOCSIGN, c.token_id)

\* C14 witness: a sign_document has just succeeded at a ledger timestamp
\* above 0 that equals the deadline of the only minted token, whose only
\* signer is now Signed.
C14_Witness ==
    /\ last = [op |-> "sign_document", err |-> Ok]
    /\ now > 0
    /\ \E t \in Token, s \in Address :
          /\ DOMAIN DEADLINES = {t}
          /\ DEADLINES[t] = now
          /\ DOMAIN DOCSIGN[t] = {s}
          /\ DOCSIGN[t][s] = "Signed"

\* C15 as stated: a sign_document of a signer stored as Signed passes the
\* signer lookup, and its result is that of the hash check, the deadline
\* check and verify_signer in turn, verify_signer being the one that raises
\* AlreadySigned.
C15_SignedPassesToVerifySigner ==
    \A c \in SignCalls :
        StatusIs(c.token_id, c.signer, "Signed") =>
            SignErr(c) =
                IF matched_hash_err(c.document_hash, c.token_id) # Ok
                THEN matched_hash_err(c.document_hash, c.token_id)
                ELSE IF deadline_err(c.token_id) # Ok
                THEN deadline_err(c.token_id)
                ELSE verify_signer(c.signer, c.token_id, c.authed)

\* C15: a sign_document of a signer stored as Signed aborts with
\* AlreadySigned at the signer lookup, whatever its hash, the ledger
\* timestamp and the authentication, and leaves the store as it was; a call
\* that gets as far as verify_signer is by a signer stored as Waiting or
\* Rejected.
C15_SignedStoppedAtLookup ==
    \A c \in SignCalls :
        /\ StatusIs(c.token_id, c.signer, "Signed") =>
              /\ signer_status_err(c.signer, c.token_id) = AlreadySigned
              /\ SignErr(c) = AlreadySigned
              /\ SignStore(c) = Store
        /\ SignErr(c) \in {Ok, HostAuthError, SignatureExpired} =>
              DOCSIGN[c.token_id][c.signer] \in {"Waiting", "Rejected"}

\* C15 witness: a sign_document has just been refused with AlreadySigned
\* while some signer is Signed, nobody is Rejected and the deadline of
\* every minted token has passed.
C15_Witness ==
    /\ last = [op |-> "sign_document", err |-> AlreadySigned]
    /\ \E t \in DOMAIN DOCSIGN, s \in Address : StatusIs(t, s, "Signed")
    /\ \A t \in DOMAIN DOCSIGN : \A s \in DOMAIN DOCSIGN[t] :
          DOCSIGN[t][s] # "Rejected"
    /\ \A t \in DOMAIN DEADLINES : now > DEADLINES[t]

\* C16: a sign_document whose signer the host does not authenticate never
\* succeeds and leaves DOCSIGN and NONCES as they were; a step in which the
\* status of (token_id, signer) leaves Waiting is a successful sign_document
\* of that token_id with that signer authenticated.
C16_AuthRequired ==
    /\ [](\A c \in SignCalls :
            ~c.authed =>
                /\ SignErr(c) # Ok
                /\ SignStore(c).DOCSIGN = DOCSIGN
                /\ SignStore(c).NONCES = NONCES)
    /\ [][\A t \in DOMAIN DOCSIGN : \A s \in DOMAIN DOCSIGN[t] :
            (DOCSIGN[t][s] = "Waiting" /\ DOCSIGN'[t][s] # "Waiting") =>
                /\ last' = [op |-> "sign_document", err |-> Ok]
                /\ \E c \in SignCalls :
                      /\ c.authed
                      /\ c.signer = s
                      /\ c.token_id = t
                      /\ SignErr(c) = Ok
                      /\ Store' = SignStore(c)]_vars

\* C16 witness: a sign_document has just been refused for lack of
\* authentication of a signer who is still Waiting.
C16_Witness ==
    /\ last = [op |-> "sign_document", err |-> HostAuthError]
    /\ \E t \in DOMAIN DOCSIGN, s \in Address : StatusIs(t, s, "Waiting")

\* C17: every call of sign_document, safe_mint or init that aborts leaves
\* the seven tables as they were, and has issued no write before it aborts;
\* every step whose operation aborted leaves the seven tables unchanged.
C17_AbortLeavesStore ==
    /\ [](/\ \A c \in SignCalls :
                SignErr(c) # Ok =>
                    /\ SignStore(c) = Store
                    /\ sign_document_written(c.document_hash, c.signer,
                           c.status, c.token_id, c.authed) = Store
          /\ \A c \in MintCalls :
                MintErr(c) # Ok =>
                    /\ MintStore(c) = Store
                    /\ safe_mint_written(c.doc.to, c.token_id, c.doc.meta_uri,
                           c.signers, c.doc.document_hash, c.doc.deadline)
                         = Store
          /\ \A admin \in Address, token_id \in Token :
                init_err # Ok => init_store(admin, token_id) = Store)
    /\ [][last'.err # Ok => Store' = Store]_vars

\* C17 witness: a safe_mint has just aborted with TokenAlreadyMinted in a
\* state with an administrator, both tokens minted and a Signed signer.
C17_Witness ==
    /\ last = [op |-> "safe_mint", err |-> TokenAlreadyMinted]
    /\ ADMIN # << >>
    /\ DOMAIN OWNERS = Token
    /\ \E t \in DOMAIN DOCSIGN, s \in Address : StatusIs(t, s, "Signed")

\* C18: a successful safe_mint stores its to, meta_uri, document_hash and
\* deadline under its token_id; in every step, every minted token keeps its
\* owner, URI, document hash and deadline and stays in DOCSIGN, and no key
\* leaves NONCES.
C18_TokenDataFixed ==
    /\ [](\A c \in MintCalls :
            MintErr(c) = Ok =>
                /\ MintStore(c).OWNERS[c.token_id] = c.doc.to
                /\ MintStore(c).URIS[c.token_id] = c.doc.meta_uri
                /\ MintStore(c).T2DHASH[c.token_id] = c.doc.document_hash
                /\ MintStore(c).DEADLINES[c.token_id] = c.doc.deadline)
    /\ [][/\ \A t \in DOMAIN OWNERS :
                /\ MapHas(OWNERS', t) /\ OWNERS'[t] = OWNERS[t]
                /\ MapHas(URIS', t) /\ URIS'[t] = URIS[t]
                /\ MapHas(T2DHASH', t) /\ T2DHASH'[t] = T2DHASH[t]
                /\ MapHas(DEADLINES', t) /\ DEADLINES'[t] = DEADLINES[t]
                /\ MapHas(DOCSIGN', t)
          /\ DOMAIN NONCES \subseteq DOMAIN NONCES']_vars

\* C18 witness: a safe_mint has just succeeded as the second mint, the
\* two tokens having different owners and deadlines, after a signer of the
\* first token signed.
C18_Witness ==
    /\ last = [op |-> "safe_mint", err |-> Ok]
    /\ DOMAIN OWNERS = Token
    /\ \E t \in Token, u \in Token :
          /\ OWNERS[t] # OWNERS[u]
          /\ DEADLINES[t] # DEADLINES[u]
    /\ \E t \in DOMAIN DOCSIGN, s \in Address : StatusIs(t, s, "Signed")

\* C19: a successful safe_mint makes the keys of DOCSIGN[token_id] the set
\* of addresses of its signers list; a successful sign_document leaves the
\* key set of every inner map as it was, and in every step every minted
\* token keeps the key set of its inner map.
C19_SignerSetFixed ==
    /\ [](/\ \A c \in MintCalls :
                MintErr(c) = Ok =>
                    DOMAIN MintStore(c).DOCSIGN[c.token_id]
                        = Addresses(c.signers)
          /\ \A c \in SignCalls :
                SignErr(c) = Ok =>
                    \A t \in DOMAIN DOCSIGN :
                        DOMAIN SignStore(c).DOCSIGN[t] = DOMAIN DOCSIGN[t])
    /\ [][\A t \in DOMAIN DOCSIGN :
            /\ MapHas(DOCSIGN', t)
            /\ DOMAIN DOCSIGN'[t] = DOMAIN DOCSIGN[t]]_vars

\* C19 witness: a sign_document has just succeeded on a token whose signers
\* are all the addresses, one now Signed and another Rejected.
C19_Witness ==
    /\ last = [op |-> "sign_document", err |-> Ok]
    /\ \E t \in DOMAIN DOCSIGN :
          /\ DOMAIN DOCSIGN[t] = Address
          /\ \E s \in Address, o \in Address :
                DOCSIGN[t][s] = "Signed" /\ DOCSIGN[t][o] = "Rejected"

\* sign_document's checks with the Signed guard of the signer lookup
\* (step 6) taken out
sign_document_err_step6_removed(document_hash, signer, status, token_id, authed) ==
    IF ~require_minted(token_id) THEN TokenNotMinted
    ELSE IF MapIsEmpty(DOCSIGN) THEN DocumentSigningsIsEmpty
    ELSE IF signer_status_err_nosigned(signer, token_id) # Ok
         THEN signer_status_err_nosigned(signer, token_id)
    ELSE IF matched_hash_err(document_hash, token_id) # Ok
         THEN matched_hash_err(document_hash, token_id)
    ELSE IF deadline_err(token_id) # Ok THEN deadline_err(token_id)
    ELSE IF verify_signer(signer, token_id, authed) # Ok
         THEN verify_signer(signer, token_id, authed)
    ELSE signature_expired_err(token_id)

\* the store after a call of that variant
sign_document_store_step6_removed(document_hash, signer, status, token_id, authed) ==
    IF sign_document_err_step6_removed(document_hash, signer, status,
                                       token_id, authed) = Ok
    THEN [Store EXCEPT !.DOCSIGN = sign_document_DOCSIGN(signer, status, token_id),
                       !.NONCES = sign_document_NONCES(signer)]
    ELSE Store

Step6RemovedErr(c) ==
    sign_document_err_step6_removed(c.document_hash, c.signer, c.status,
                                    c.token_id, c.authed)

Step6RemovedStore(c) ==
    sign_document_store_step6_removed(c.document_hash, c.signer, c.status,
                                      c.token_id, c.authed)

\* C20 as stated: sign_document with step 6 removed gives, in every
\* reachable state and for every input, the same error code and the same
\* resulting store as the original.
C20_Step6RemovedSameOutcome ==
    \A c \in SignCalls :
        /\ Step6RemovedErr(c) = SignErr(c)
        /\ Step6RemovedStore(c) = SignStore(c)

\* C20: sign_document with step 6 removed succeeds exactly when the
\* original does and leaves the same store; its error code is the original's
\* unless the signer is stored as Signed, where the original aborts with
\* AlreadySigned and the variant aborts with the error of the first failing
\* of the hash check, the deadline check and verify_signer.
C20_Step6RemovedSameState ==
    \A c \in SignCalls :
        /\ (Step6RemovedErr(c) = Ok) <=> (SignErr(c) = Ok)
        /\ Step6RemovedStore(c) = SignStore(c)
        /\ ~StatusIs(c.token_id, c.signer, "Signed") =>
              Step6RemovedErr(c) = SignErr(c)
        /\ StatusIs(c.token_id, c.signer, "Signed") =>
              /\ SignErr(c) = AlreadySigned
              /\ Step6RemovedErr(c) =
                    IF matched_hash_err(c.document_hash, c.token_id) # Ok
                    THEN matched_hash_err(c.document_hash, c.token_id)
                    ELSE IF deadline_err(c.token_id) # Ok
                    THEN deadline_err(c.token_id)
                    ELSE IF ~c.authed THEN HostAuthError
                    ELSE AlreadySigned

\* C20 witness: a sign_document has just been refused with AlreadySigned
\* where the only minted token has a single signer, stored as Signed, and
\* its deadline has passed, a call the variant refuses with another code.
C20_Witness ==
    /\ last = [op |-> "sign_document", err |-> AlreadySigned]
    /\ \E t \in Token, s \in Address :
          /\ DOMAIN DOCSIGN = {t}
          /\ DOMAIN DOCSIGN[t] = {s}
          /\ DOCSIGN[t][s] = "Signed"
          /\ now > DEADLINES[t]

\* C21: no sign_document call, in any reachable state, aborts with
\* DocumentSigningsIsEmpty, DocumentHashesIsEmpty, HashNotFound,
\* DeadlinesIsEmpty or DeadlineNotFound.
C21_ConsistencyErrorsUnreachable ==
    \A c \in SignCalls :
        SignErr(c) \notin {DocumentSigningsIsEmpty, DocumentHashesIsEmpty,
                           HashNotFound, DeadlinesIsEmpty, DeadlineNotFound}

\* C21 witness: a sign_document has just passed every table lookup (it
\* succeeded or stopped at the authentication) while one token_id is minted
\* and another is not.
C21_Witness ==
    /\ last.op = "sign_document"
    /\ last.err \in {Ok, HostAuthError}
    /\ DOMAIN OWNERS # {}
    /\ DOMAIN OWNERS # Token

\* C22: no sign_document call, in any reachable state, aborts with
\* SignatureExpired; a call that reaches the first deadline check with the
\* ledger timestamp past the deadline aborts with DeadlinePassed.
C22_SignatureExpiredNeverFires ==
    \A c \in SignCalls :
        /\ SignErr(c) # SignatureExpired
        /\ ( /\ Enrolled(c.token_id, c.signer)
             /\ DOCSIGN[c.token_id][c.signer] \in {"Waiting", "Rejected"}
             /\ T2DHASH[c.token_id] = c.document_hash
             /\ ledger_timestamp > DEADLINES[c.token_id] ) =>
                SignErr(c) = DeadlinePassed

\* C22 witness: a sign_document has just succeeded, so went through the
\* second deadline check, at the last timestamp, which is the deadline of
\* its token, with every token_id minted.
C22_Witness ==
    /\ last = [op |-> "sign_document", err |-> Ok]
    /\ now = MaxTime
    /\ DOMAIN OWNERS = Token
    /\ \E t \in Token, s \in Address :
          /\ DEADLINES[t] = now
          /\ Enrolled(t, s)
          /\ DOCSIGN[t][s] # "Waiting"
    /\ \A t \in Token : DEADLINES[t] < now =>
          \A s \in DOMAIN DOCSIGN[t] : DOCSIGN[t][s] = "Waiting"

\* the error of the earliest failing check in the order: token minted,
\* signer enrolled, stored status not NotASigner, stored status not Signed,
\* hash match, now <= deadline, signer authentication, stored status Waiting
FirstFailingCheck(c) ==
    IF c.token_id \notin DOMAIN OWNERS THEN TokenNotMinted
    ELSE IF ~Enrolled(c.token_id, c.signer) THEN SignerDoesNotExist
    ELSE IF DOCSIGN[c.token_id][c.signer] = "NotASigner" THEN NotASigner
    ELSE IF DOCSIGN[c.token_id][c.signer] = "Signed" THEN AlreadySigned
    ELSE IF T2DHASH[c.token_id] # c.document_hash
         THEN DocumentHashesDoesNotMatchTokenHash
    ELSE IF now > DEADLINES[c.token_id] THEN DeadlinePassed
    ELSE IF ~c.authed THEN HostAuthError
    ELSE IF DOCSIGN[c.token_id][c.signer] # "Waiting" THEN AlreadySigned
    ELSE Ok

\* C23: the result of every sign_document call is the error of the earliest
\* failing check in that order, and Ok when none fails.
C23_EarliestFailingCheck ==
    \A c \in SignCalls : SignErr(c) = FirstFailingCheck(c)

\* C23 witness: a sign_document has just been refused with
\* SignerDoesNotExist although the deadline of every minted token had
\* passed as well.
C23_Witness ==
    /\ last = [op |-> "sign_document", err |-> SignerDoesNotExist]
    /\ DOMAIN DOCSIGN # {}
    /\ \A t \in DOMAIN DEADLINES : now > DEADLINES[t]

\* C24: safe_mint of an unminted token_id with a non-empty signers list
\* succeeds also when its deadline is below the ledger timestamp, storing
\* that deadline and every signer as Waiting; no sign_document on a token
\* whose deadline has passed succeeds, and in every step such a token stays
\* past its deadline and keeps its signer map, so its signers stay Waiting.
C24_PastDeadlineMintFrozen ==
    /\ [](\A c \in MintCalls :
            ( /\ c.doc.deadline < ledger_timestamp
              /\ c.signers # << >>
              /\ c.token_id \notin DOMAIN OWNERS ) =>
                /\ MintErr(c) = Ok
                /\ MintStore(c).DEADLINES[c.token_id] = c.doc.deadline
                /\ \A s \in Addresses(c.signers) :
                      MintStore(c).DOCSIGN[c.token_id][s] = "Waiting")
    /\ [](\A c \in SignCalls :
            ( /\ MapHas(DEADLINES, c.token_id)
              /\ ledger_timestamp > DEADLINES[c.token_id] ) =>
                /\ SignErr(c) # Ok
                /\ SignStore(c) = Store)
    /\ [][\A t \in DOMAIN DEADLINES :
            now > DEADLINES[t] =>
                /\ MapHas(DEADLINES', t)
                /\ now' > DEADLINES'[t]
                /\ MapHas(DOCSIGN', t)
                /\ DOCSIGN'[t] = DOCSIGN[t]]_vars

\* C24 witness: a safe_mint has just succeeded for the only minted token,
\* whose deadline is below the ledger timestamp and whose two signers are
\* Waiting.
C24_Witness ==
    /\ last = [op |-> "safe_mint", err |-> Ok]
    /\ \E t \in Token :
          /\ DOMAIN DEADLINES = {t}
          /\ DEADLINES[t] < now
          /\ DOMAIN DOCSIGN[t] = Address
          /\ \A s \in Address : DOCSIGN[t][s] = "Waiting"

\* C25: a successful sign_document sets DOCSIGN[token_id][signer] to the
\* status of the call and leaves every other signer of that token, the
\* signer map of every other token, and OWNERS, URIS, T2DHASH, DEADLINES and
\* ADMIN as they were; the map it returns is the DOCSIGN it has persisted.
C25_SignFrame ==
    \A c \in SignCalls :
        SignErr(c) = Ok =>
            LET post == SignStore(c)
            IN  /\ DOMAIN post.DOCSIGN = DOMAIN DOCSIGN
                /\ DOMAIN post.DOCSIGN[c.token_id] = DOMAIN DOCSIGN[c.token_id]
                /\ post.DOCSIGN[c.token_id][c.signer] = c.status
                /\ \A o \in DOMAIN DOCSIGN[c.token_id] \ {c.signer} :
                      post.DOCSIGN[c.token_id][o] = DOCSIGN[c.token_id][o]
                /\ \A u \in DOMAIN DOCSIGN \ {c.token_id} :
                      post.DOCSIGN[u] = DOCSIGN[u]
                /\ post.OWNERS = OWNERS
                /\ post.URIS = URIS
                /\ post.T2DHASH = T2DHASH
                /\ post.DEADLINES = DEADLINES
                /\ post.ADMIN = ADMIN
                /\ sign_document_return(c.signer, c.status, c.token_id)
                      = post.DOCSIGN

\* C25 witness: a sign_document has just succeeded with both tokens minted,
\* a signer of one token being Rejected and a signer of the other Signed.
C25_Witness ==
    /\ last = [op |-> "sign_document", err |-> Ok]
    /\ DOMAIN OWNERS = Token
    /\ \E t \in Token, u \in Token, s \in Address, o \in Address :
          /\ t # u
          /\ StatusIs(t, s, "Rejected")
          /\ StatusIs(u, o, "Signed")

\* C26: a sign_document with status Waiting by an authenticated signer
\* stored as Waiting, with the matching hash and now <= deadline, succeeds
\* and leaves the store as it was, so that the same signer's sign_document
\* with Signed or with Rejected succeeds in the state it leaves.
C26_WaitingIsNoOp ==
    \A c \in SignCalls :
        ( /\ c.status = "Waiting"
          /\ c.authed
          /\ StatusIs(c.token_id, c.signer, "Waiting")
          /\ T2DHASH[c.token_id] = c.document_hash
          /\ now <= DEADLINES[c.token_id] ) =>
            /\ SignErr(c) = Ok
            /\ SignStore(c).DOCSIGN = DOCSIGN
            /\ SignStore(c) = Store
            /\ \A later \in {"Signed", "Rejected"} :
                  /\ SignErr([c EXCEPT !.status = later]) = Ok
                  /\ SignStore([c EXCEPT !.status = later])
                        .DOCSIGN[c.token_id][c.signer] = later

\* C26 witness: a sign_document has just succeeded and every stored status
\* is Waiting, so the status it wrote was Waiting.
C26_Witness ==
    /\ last = [op |-> "sign_document", err |-> Ok]
    /\ DOMAIN DOCSIGN # {}
    /\ \A t \in DOMAIN DOCSIGN : \A s \in DOMAIN DOCSIGN[t] :
          DOCSIGN[t][s] = "Waiting"

\* C27: two safe_mint calls that differ only in their signers lists, the
\* lists having the same set of addresses, have the same result and leave
\* the same store; after a successful one the token's signer map has each
\* address of the list once, as Waiting.
C27_DuplicateSignersIdempotent ==
    \A c \in MintCalls :
        /\ \A d \in MintCalls :
              ( /\ d.doc = c.doc
                /\ d.token_id = c.token_id
                /\ Addresses(d.signers) = Addresses(c.signers) ) =>
                  /\ MintErr(d) = MintErr(c)
                  /\ MintStore(d) = MintStore(c)
        /\ MintErr(c) = Ok =>
              MintStore(c).DOCSIGN[c.token_id]
                  = [s \in Addresses(c.signers) |-> "Waiting"]

\* C27 witness: a safe_mint has just succeeded for the only minted token,
\* with one enrolled signer, as a list naming that signer twice leaves it.
C27_Witness ==
    /\ last = [op |-> "safe_mint", err |-> Ok]
    /\ \E t \in Token, s \in Address :
          /\ DOMAIN DOCSIGN = {t}
          /\ DOCSIGN[t] = inner_doc_signings(EmptyMap, <<s, s>>)
          /\ DOMAIN DOCSIGN[t] = {s}

\* C28: a successful safe_mint of token_id t adds the key t to OWNERS, URIS,
\* T2DHASH, DEADLINES and DOCSIGN, leaves the entry of every other token in
\* these tables as it was, and leaves NONCES and ADMIN as they were.
C28_MintFrame ==
    \A c \in MintCalls :
        MintErr(c) = Ok =>
            LET post == MintStore(c)
                t == c.token_id
            IN  /\ t \notin DOMAIN OWNERS
                /\ DOMAIN post.OWNERS = DOMAIN OWNERS \cup {t}
                /\ DOMAIN post.URIS = DOMAIN URIS \cup {t}
                /\ DOMAIN post.T2DHASH = DOMAIN T2DHASH \cup {t}
                /\ DOMAIN post.DEADLINES = DOMAIN DEADLINES \cup {t}
                /\ DOMAIN post.DOCSIGN = DOMAIN DOCSIGN \cup {t}
                /\ \A u \in DOMAIN OWNERS :
                      /\ post.OWNERS[u] = OWNERS[u]
                      /\ post.URIS[u] = URIS[u]
                      /\ post.T2DHASH[u] = T2DHASH[u]
                      /\ post.DEADLINES[u] = DEADLINES[u]
                      /\ post.DOCSIGN[u] = DOCSIGN[u]
                /\ post.NONCES = NONCES
                /\ post.ADMIN = ADMIN

\* C28 witness: a safe_mint has just succeeded as the second mint, with an
\* administrator stored and a signer of the other token Rejected.
C28_Witness ==
    /\ last = [op |-> "safe_mint", err |-> Ok]
    /\ DOMAIN OWNERS = Token
    /\ ADMIN # << >>
    /\ \E t \in Token, s \in Address : StatusIs(t, s, "Rejected")

GetterOps ==
    {"get_nonces", "get_owners", "get_token_uris", "get_token_uri",
     "get_td_hashes", "get_deadlines", "get_documents", "get_document"}

\* C29: get_document gives the empty map for a token_id that was never
\* minted, get_nonces gives 0 for a user without a stored nonce, and
\* get_documents, get_owners, get_token_uris, get_td_hashes and get_deadlines
\* give empty maps before the first mint; get_token_uri fails exactly for a
\* doc_id that is not minted; every getter call leaves the store as it was
\* and only a get_token_uri call fails.
C29_GettersTotalAndPure ==
    /\ [](/\ \A doc_id \in Token :
                doc_id \notin DOMAIN OWNERS =>
                    get_document(DOCSIGN, doc_id) = EmptyMap
          /\ \A user \in Address :
                ~MapHas(NONCES, user) => get_nonces(NONCES, user) = 0
          /\ DOMAIN OWNERS = {} =>
                /\ get_documents = EmptyMap
                /\ get_owners = EmptyMap
                /\ get_token_uris = EmptyMap
                /\ get_td_hashes = EmptyMap
                /\ get_deadlines = EmptyMap
          /\ \A doc_id \in Token :
                (get_token_uri_err(doc_id) # Ok) <=> doc_id \notin DOMAIN OWNERS)
    /\ [][last'.op \in GetterOps =>
            /\ Store' = Store
            /\ now' = now
            /\ last'.err # Ok =>
                  /\ last'.op = "get_token_uri"
                  /\ DOMAIN URIS # Token]_vars

\* C29 witness: a get_token_uri has just failed on an absent doc_id while
\* another token is minted and has a Signed signer.
C29_Witness ==
    /\ last = [op |-> "get_token_uri", err |-> UnwrapOnNone]
    /\ DOMAIN OWNERS # {}
    /\ DOMAIN OWNERS # Token
    /\ \E t \in DOMAIN DOCSIGN, s \in Address : StatusIs(t, s, "Signed")

====
